---- MODULE Spec2Model ----
(***************************************************************************)
(* Model of generate_seed_sql.py: a CSV of applicant rows is read, rows are *)
(* deduplicated by trimmed application number, dates and times are          *)
(* normalised, every field is rendered as an SQL literal, and the tuples    *)
(* are written as INSERT ... ON CONFLICT statements in batches.             *)
(*                                                                         *)
(* A Python str is a sequence of one-character strings, so strip, replace   *)
(* and strptime are computed character by character.  A rendered tuple      *)
(* (val_str) is the sequence of its ten SQL literals; a statement is a      *)
(* record of its column list, its tuples and its ON CONFLICT clause.        *)
(***************************************************************************)
EXTENDS Integers, Sequences, FiniteSets, TLC

VARIABLES pc, error, in_open, in_rows, values_list, seen_apps,
          out_open, out_file, out_before, i, table, db_pos, runs,
          fn_arg, fn_res

vars == <<pc, error, in_open, in_rows, values_list, seen_apps,
          out_open, out_file, out_before, i, table, db_pos, runs,
          fn_arg, fn_res>>

(***************************************************************************)
(* Bounds of the model.                                                    *)
(***************************************************************************)
\* rows the reader yields after the header
MaxRows == 3
\* tuples handed to the batch writer in SpecBatch
MaxN == 2003
\* length of the strings given to escape_sql in SpecEscape
MaxStrLen == 4
\* largest hour and minute numbers written into the inputs of parse_time
MaxHour == 23
MaxMinute == 61
\* executions of the script against one applicants table in SpecDB
MaxRuns == 2
\* how far from a multiple of batch_size the lengths in SpecBatch lie
Slack == 3

(***************************************************************************)
(* Python values.                                                          *)
(***************************************************************************)
\* None: a one-element sequence whose element is no character, so it is
\* comparable with, and different from, every str.
None == <<"<None>">>

WS == {" ", "\t"}

DigitChars == <<"0", "1", "2", "3", "4", "5", "6", "7", "8", "9">>

IsDigit(c) == \E k \in 1..10 : DigitChars[k] = c

DigitVal(c) == (CHOOSE k \in 1..10 : DigitChars[k] = c) - 1

\* int() of a string of decimal digits
RECURSIVE IntOf(_)
IntOf(s) ==
    IF s = <<>> THEN 0
    ELSE 10 * IntOf(SubSeq(s, 1, Len(s) - 1)) + DigitVal(s[Len(s)])

\* strftime's zero-padded two- and four-digit fields
Pad2(n) == <<DigitChars[((n \div 10) % 10) + 1], DigitChars[(n % 10) + 1]>>

Pad4(n) == Pad2(n \div 100) \o Pad2(n % 100)

\* str.strip(): whitespace removed from both ends
RECURSIVE LStrip(_)
LStrip(s) ==
    IF s = <<>> THEN s
    ELSE IF Head(s) \in WS THEN LStrip(Tail(s)) ELSE s

RECURSIVE RStrip(_)
RStrip(s) ==
    IF s = <<>> THEN s
    ELSE IF s[Len(s)] \in WS THEN RStrip(SubSeq(s, 1, Len(s) - 1)) ELSE s

Strip(s) == RStrip(LStrip(s))

\* str.lower() on the letters of the AM/PM marker
LowerChar(c) ==
    CASE c = "A" -> "a"
      [] c = "P" -> "p"
      [] c = "M" -> "m"
      [] OTHER -> c

Lower(s) == [k \in 1..Len(s) |-> LowerChar(s[k])]

(***************************************************************************)
(* strptime directives, as the regular expressions of _strptime.            *)
(***************************************************************************)
\* %I  1[0-2]|0[1-9]|[1-9]      %m  the same
MatchI(t) ==
    \/ /\ Len(t) = 2
       /\ \/ t[1] = "1" /\ t[2] \in {"0", "1", "2"}
          \/ t[1] = "0" /\ IsDigit(t[2]) /\ t[2] # "0"
    \/ /\ Len(t) = 1
       /\ IsDigit(t[1]) /\ t[1] # "0"

\* %M  [0-5]\d|\d
MatchM(t) ==
    \/ /\ Len(t) = 2
       /\ t[1] \in {"0", "1", "2", "3", "4", "5"} /\ IsDigit(t[2])
    \/ /\ Len(t) = 1
       /\ IsDigit(t[1])

\* %d  3[0-1]|[1-2]\d|0[1-9]|[1-9]| [1-9]
MatchD(t) ==
    \/ /\ Len(t) = 2
       /\ \/ t[1] = "3" /\ t[2] \in {"0", "1"}
          \/ t[1] \in {"1", "2"} /\ IsDigit(t[2])
          \/ t[1] \in {"0", " "} /\ IsDigit(t[2]) /\ t[2] # "0"
    \/ /\ Len(t) = 1
       /\ IsDigit(t[1]) /\ t[1] # "0"

\* %Y  \d\d\d\d
MatchY(t) == Len(t) = 4 /\ \A k \in 1..4 : IsDigit(t[k])

\* %p  am|pm, case-insensitive
MatchP(t) == Len(t) = 2 /\ Lower(t) \in {<<"a", "m">>, <<"p", "m">>}

IsLeap(y) == (y % 4 = 0) /\ ((y % 100 # 0) \/ (y % 400 = 0))

DaysInMonth(y, m) ==
    IF m = 2 THEN (IF IsLeap(y) THEN 29 ELSE 28)
    ELSE IF m \in {4, 6, 9, 11} THEN 30 ELSE 31

(***************************************************************************)
(* parse_date: strptime(date_str, '%d/%m/%Y').strftime('%Y-%m-%d'), None    *)
(* on ValueError.  The whole string has to match; a day that the month      *)
(* does not have and the year 0000 are ValueErrors too.  (Years below 1000  *)
(* are left out of the inputs: strftime pads them differently per libc.)    *)
(***************************************************************************)
parse_date(date_str) ==
    LET n == Len(date_str)
        cands == {c \in (1..2) \X (1..2) :
                    /\ c[1] + c[2] + 6 = n
                    /\ MatchD(SubSeq(date_str, 1, c[1]))
                    /\ date_str[c[1] + 1] = "/"
                    /\ MatchI(SubSeq(date_str, c[1] + 2, c[1] + 1 + c[2]))
                    /\ date_str[c[1] + c[2] + 2] = "/"
                    /\ MatchY(SubSeq(date_str, c[1] + c[2] + 3, n))}
    IN  IF cands = {} THEN None
        ELSE LET c == CHOOSE x \in cands : TRUE
                 day == IntOf(LStrip(SubSeq(date_str, 1, c[1])))
                 month == IntOf(SubSeq(date_str, c[1] + 2, c[1] + 1 + c[2]))
                 year == IntOf(SubSeq(date_str, c[1] + c[2] + 3, n))
             IN  IF year < 1 \/ day > DaysInMonth(year, month) THEN None
                 ELSE Pad4(year) \o <<"-">> \o Pad2(month) \o <<"-">> \o Pad2(day)

(***************************************************************************)
(* parse_time: strptime(time_str, '%I:%M %p').strftime('%H:%M:%S'), None    *)
(* on ValueError.  The blank of the format matches one or more whitespace   *)
(* characters; 12 AM is hour 0 and 1..11 PM are hours 13..23.               *)
(***************************************************************************)
\* parse_time as it would be if 12 AM and 12 PM were not treated apart
parse_time_TwelveUnfixed(time_str) ==
    LET n == Len(time_str)
        cands == {c \in (1..2) \X (1..2) :
                    /\ c[1] + c[2] + 4 <= n
                    /\ MatchI(SubSeq(time_str, 1, c[1]))
                    /\ time_str[c[1] + 1] = ":"
                    /\ MatchM(SubSeq(time_str, c[1] + 2, c[1] + 1 + c[2]))
                    /\ \A k \in (c[1] + c[2] + 2)..(n - 2) : time_str[k] \in WS
                    /\ MatchP(SubSeq(time_str, n - 1, n))}
    IN  IF cands = {} THEN None
        ELSE LET c == CHOOSE x \in cands : TRUE
                 hour == IntOf(SubSeq(time_str, 1, c[1]))
                 minute == IntOf(SubSeq(time_str, c[1] + 2, c[1] + 1 + c[2]))
                 pm == Lower(SubSeq(time_str, n - 1, n)) = <<"p", "m">>
                 hour24 == IF pm THEN (hour + 12) % 24 ELSE hour
             IN  Pad2(hour24) \o <<":">> \o Pad2(minute) \o <<":", "0", "0">>

parse_time(time_str) ==
    LET n == Len(time_str)
        cands == {c \in (1..2) \X (1..2) :
                    /\ c[1] + c[2] + 4 <= n
                    /\ MatchI(SubSeq(time_str, 1, c[1]))
                    /\ time_str[c[1] + 1] = ":"
                    /\ MatchM(SubSeq(time_str, c[1] + 2, c[1] + 1 + c[2]))
                    /\ \A k \in (c[1] + c[2] + 2)..(n - 2) : time_str[k] \in WS
                    /\ MatchP(SubSeq(time_str, n - 1, n))}
    IN  IF cands = {} THEN None
        ELSE LET c == CHOOSE x \in cands : TRUE
                 hour == IntOf(SubSeq(time_str, 1, c[1]))
                 minute == IntOf(SubSeq(time_str, c[1] + 2, c[1] + 1 + c[2]))
                 pm == Lower(SubSeq(time_str, n - 1, n)) = <<"p", "m">>
                 hour24 == IF pm THEN (IF hour = 12 THEN 12 ELSE hour + 12)
                           ELSE (IF hour = 12 THEN 0 ELSE hour)
             IN  Pad2(hour24) \o <<":">> \o Pad2(minute) \o <<":", "0", "0">>

(***************************************************************************)
(* escape_sql                                                              *)
(***************************************************************************)
\* val.replace("'", "''")
RECURSIVE ReplaceQuotes(_)
ReplaceQuotes(s) ==
    IF s = <<>> THEN <<>>
    ELSE (IF Head(s) = "'" THEN <<"'", "'">> ELSE <<Head(s)>>) \o ReplaceQuotes(Tail(s))

\* escape_sql as it would be without the replace
escape_sql_NoDoubling(val) ==
    IF val = None THEN <<"N", "U", "L", "L">>
    ELSE <<"'">> \o val \o <<"'">>

escape_sql(val) ==
    IF val = None THEN <<"N", "U", "L", "L">>
    ELSE <<"'">> \o ReplaceQuotes(val) \o <<"'">>

(***************************************************************************)
(* The row loop's rendering of one row (lines 39-61).                       *)
(***************************************************************************)
\* the application number as it would be without strip()
AppNo_NoStrip(row) == row[1]

\* the trimmed application number of a row with a first column
AppNo(row) == Strip(row[1])

StatusLiteral == <<"'", "R", "E", "G", "I", "S", "T", "E", "R", "E", "D", "'">>

\* val_str: the ten literals of the tuple, in column order
val_str(row) ==
    << escape_sql(AppNo(row)),
       escape_sql(Strip(row[2])),
       escape_sql(Strip(row[3])),
       escape_sql(Strip(row[4])),
       escape_sql(Strip(row[5])),
       escape_sql(parse_date(Strip(row[6]))),
       escape_sql(parse_time(Strip(row[7]))),
       escape_sql(Strip(row[8])),
       escape_sql(Strip(row[9])),
       StatusLiteral >>

(***************************************************************************)
(* The statement of one batch (lines 72-76).                                *)
(***************************************************************************)
batch_size == 1000

HeaderLine == "-- Seed data for applicants table"

InsertCols == <<"application_number", "name", "phone", "program", "campus",
                "date", "time", "location", "instructions", "status">>

\* the SET list as it would be with status = EXCLUDED.status
UpdateSetCols_WithStatus ==
    <<"name", "phone", "program", "campus", "date", "time", "location",
      "instructions", "status">>

UpdateSetCols ==
    <<"name", "phone", "program", "campus", "date", "time", "location",
      "instructions">>

Min(a, b) == IF a < b THEN a ELSE b

\* the slice as it would be if it started one element late
Batch_DropsFirst(list, lo) == SubSeq(list, lo + 2, Min(lo + batch_size, Len(list)))

\* values_list[i:i+batch_size], i counted from 0
Batch(list, lo) == SubSeq(list, lo + 1, Min(lo + batch_size, Len(list)))

Statement(batch) ==
    [insert_cols |-> InsertCols,
     tuples      |-> batch,
     conflict    |-> "application_number",
     update_set  |-> UpdateSetCols]

\* the loop as it would be if it ran once even without tuples
RangeHasNext_AtLeastOnce(lo, n) == lo < n \/ lo = 0

\* range(0, len(values_list), batch_size) has a value at i
RangeHasNext(lo, n) == lo < n

(***************************************************************************)
(* The input: rows the csv reader can yield.                                *)
(***************************************************************************)
GoodDate == <<"2", "1", "/", "0", "3", "/", "2", "0", "2", "4">>
BadDate  == <<"2", "0", "2", "4", "-", "0", "3", "-", "2", "1">>
GoodTime == <<" ", "2", ":", "3", "0", " ", "P", "M">>
BadTime  == <<"1", "4", ":", "3", "0">>

AppNos == {<<" ">>, <<"A">>, <<" ", "A", " ">>, <<"B">>}

MkRow(a, d, t) ==
    <<a, <<"O", "'", "B", " ">>, <<"9">>, <<"P">>, <<"C">>, d, t, <<"V">>, <<"I">>>>

\* (date, time) columns: both parse, one does not, neither does
DateTimes == {<<GoodDate, GoodTime>>, <<BadDate, GoodTime>>, <<GoodDate, BadTime>>}

FullRows == {MkRow(a, dt[1], dt[2]) : a \in AppNos, dt \in DateTimes}
            \cup {MkRow(<<"B">>, BadDate, BadTime)}

\* rows of one and of eight columns
ShortRows == {SubSeq(MkRow(a, GoodDate, GoodTime), 1, 1) : a \in {<<" ">>, <<"A">>}}
             \cup {SubSeq(MkRow(a, GoodDate, GoodTime), 1, 8) : a \in {<<" ", "A", " ">>, <<"B">>}}

Rows == FullRows \cup ShortRows \cup {<<>>}

\* the output file before the run: absent, or left by an earlier run
NoFile == [exists |-> FALSE, lines |-> <<>>, stmts |-> <<>>]
StaleFile == [exists |-> TRUE, lines |-> <<"-- stale">>, stmts |-> <<>>]

(***************************************************************************)
(* The run: read phase (lines 26-62), write phase (lines 68-77).            *)
(***************************************************************************)
Idle == /\ table = {} /\ db_pos = 0 /\ runs = 0
        /\ fn_arg = None /\ fn_res = None

Init ==
    /\ pc = "open_input"
    /\ error = "none"
    /\ in_open = FALSE
    /\ in_rows = <<>>
    /\ values_list = <<>>
    /\ seen_apps = {}
    /\ out_open = FALSE
    /\ out_before \in {NoFile, StaleFile}
    /\ out_file = out_before
    /\ i = 0
    /\ Idle

\* open(input_file, 'r') succeeds
OpenInput ==
    /\ pc = "open_input"
    /\ in_open' = TRUE
    /\ pc' = "read_header"
    /\ UNCHANGED <<error, in_rows, values_list, seen_apps, out_open, out_file,
                   out_before, i, table, db_pos, runs, fn_arg, fn_res>>

\* open(input_file, 'r') raises: the file is missing or unreadable
OpenInputFails ==
    /\ pc = "open_input"
    /\ pc' = "crashed"
    /\ error' = "FileNotFoundError"
    /\ UNCHANGED <<in_open, in_rows, values_list, seen_apps, out_open, out_file,
                   out_before, i, table, db_pos, runs, fn_arg, fn_res>>

\* headers = next(reader), then the two collections are created
ReadHeader ==
    /\ pc = "read_header"
    /\ values_list' = <<>>
    /\ seen_apps' = {}
    /\ pc' = "rows"
    /\ UNCHANGED <<error, in_open, in_rows, out_open, out_file,
                   out_before, i, table, db_pos, runs, fn_arg, fn_res>>

\* next(reader) on a file with no line at all
ReadHeaderFails ==
    /\ pc = "read_header"
    /\ pc' = "crashed"
    /\ error' = "StopIteration"
    /\ in_open' = FALSE
    /\ UNCHANGED <<in_rows, values_list, seen_apps, out_open, out_file,
                   out_before, i, table, db_pos, runs, fn_arg, fn_res>>

\* the iteration as it would be without the seen_apps test
ProcessRow_NoDedup(row) ==
    /\ pc = "rows"
    /\ Len(in_rows) < MaxRows
    /\ in_rows' = Append(in_rows, row)
    /\ IF row = <<>> THEN
          UNCHANGED <<pc, error, in_open, seen_apps, values_list>>
       ELSE IF AppNo(row) = <<>> THEN
          UNCHANGED <<pc, error, in_open, seen_apps, values_list>>
       ELSE
          /\ seen_apps' = seen_apps \cup {AppNo(row)}
          /\ IF Len(row) < 9 THEN
                /\ pc' = "crashed"
                /\ error' = "IndexError"
                /\ in_open' = FALSE
                /\ UNCHANGED values_list
             ELSE
                /\ values_list' = Append(values_list, val_str(row))
                /\ UNCHANGED <<pc, error, in_open>>
    /\ UNCHANGED <<out_open, out_file, out_before, i, table, db_pos, runs,
                   fn_arg, fn_res>>

\* the iteration as it would be if all columns were read before the skip test
ProcessRow_ChecksLengthFirst(row) ==
    /\ pc = "rows"
    /\ Len(in_rows) < MaxRows
    /\ in_rows' = Append(in_rows, row)
    /\ IF row = <<>> THEN
          UNCHANGED <<pc, error, in_open, seen_apps, values_list>>
       ELSE IF Len(row) < 9 THEN
          /\ pc' = "crashed"
          /\ error' = "IndexError"
          /\ in_open' = FALSE
          /\ UNCHANGED <<seen_apps, values_list>>
       ELSE IF AppNo(row) = <<>> \/ AppNo(row) \in seen_apps THEN
          UNCHANGED <<pc, error, in_open, seen_apps, values_list>>
       ELSE
          /\ seen_apps' = seen_apps \cup {AppNo(row)}
          /\ values_list' = Append(values_list, val_str(row))
          /\ UNCHANGED <<pc, error, in_open>>
    /\ UNCHANGED <<out_open, out_file, out_before, i, table, db_pos, runs,
                   fn_arg, fn_res>>

\* the iteration as it would be if parse_date and parse_time let ValueError out
ProcessRow_ParseErrorEscapes(row) ==
    /\ pc = "rows"
    /\ Len(in_rows) < MaxRows
    /\ in_rows' = Append(in_rows, row)
    /\ IF row = <<>> THEN
          UNCHANGED <<pc, error, in_open, seen_apps, values_list>>
       ELSE IF AppNo(row) = <<>> \/ AppNo(row) \in seen_apps THEN
          UNCHANGED <<pc, error, in_open, seen_apps, values_list>>
       ELSE
          /\ seen_apps' = seen_apps \cup {AppNo(row)}
          /\ IF Len(row) < 9 THEN
                /\ pc' = "crashed"
                /\ error' = "IndexError"
                /\ in_open' = FALSE
                /\ UNCHANGED values_list
             ELSE IF parse_date(Strip(row[6])) = None \/ parse_time(Strip(row[7])) = None THEN
                /\ pc' = "crashed"
                /\ error' = "ValueError"
                /\ in_open' = FALSE
                /\ UNCHANGED values_list
             ELSE
                /\ values_list' = Append(values_list, val_str(row))
                /\ UNCHANGED <<pc, error, in_open>>
    /\ UNCHANGED <<out_open, out_file, out_before, i, table, db_pos, runs,
                   fn_arg, fn_res>>

\* the iteration as it would be if the output file were opened while reading
ProcessRow_WritesAsItGoes(row) ==
    /\ pc = "rows"
    /\ Len(in_rows) < MaxRows
    /\ in_rows' = Append(in_rows, row)
    /\ IF row = <<>> THEN
          UNCHANGED <<pc, error, in_open, seen_apps, values_list, out_open, out_file>>
       ELSE IF AppNo(row) = <<>> \/ AppNo(row) \in seen_apps THEN
          UNCHANGED <<pc, error, in_open, seen_apps, values_list, out_open, out_file>>
       ELSE
          /\ seen_apps' = seen_apps \cup {AppNo(row)}
          /\ out_open' = TRUE
          /\ out_file' = [exists |-> TRUE, lines |-> <<HeaderLine>>, stmts |-> <<>>]
          /\ IF Len(row) < 9 THEN
                /\ pc' = "crashed"
                /\ error' = "IndexError"
                /\ in_open' = FALSE
                /\ UNCHANGED values_list
             ELSE
                /\ values_list' = Append(values_list, val_str(row))
                /\ UNCHANGED <<pc, error, in_open>>
    /\ UNCHANGED <<out_before, i, table, db_pos, runs, fn_arg, fn_res>>

\* one iteration of the row loop on the next row of the reader
ProcessRow(row) ==
    /\ pc = "rows"
    /\ Len(in_rows) < MaxRows
    /\ in_rows' = Append(in_rows, row)
    /\ IF row = <<>> THEN
          \* if not row: continue
          UNCHANGED <<pc, error, in_open, seen_apps, values_list>>
       ELSE IF AppNo(row) = <<>> \/ AppNo(row) \in seen_apps THEN
          \* if not app_no or app_no in seen_apps: continue
          UNCHANGED <<pc, error, in_open, seen_apps, values_list>>
       ELSE
          /\ seen_apps' = seen_apps \cup {AppNo(row)}
          /\ IF Len(row) < 9 THEN
                \* row[k] past the end: IndexError leaves the with block
                /\ pc' = "crashed"
                /\ error' = "IndexError"
                /\ in_open' = FALSE
                /\ UNCHANGED values_list
             ELSE
                /\ values_list' = Append(values_list, val_str(row))
                /\ UNCHANGED <<pc, error, in_open>>
    /\ UNCHANGED <<out_open, out_file, out_before, i, table, db_pos, runs,
                   fn_arg, fn_res>>

ReadRow == \E row \in Rows : ProcessRow(row)

\* the reader is exhausted: the with block releases the input file
EndOfInput ==
    /\ pc = "rows"
    /\ in_open' = FALSE
    /\ pc' = "open_output"
    /\ UNCHANGED <<error, in_rows, values_list, seen_apps, out_open, out_file,
                   out_before, i, table, db_pos, runs, fn_arg, fn_res>>

\* open(output_file, 'w') creates or truncates the file
OpenOutput ==
    /\ pc = "open_output"
    /\ out_open' = TRUE
    /\ out_file' = [exists |-> TRUE, lines |-> <<>>, stmts |-> <<>>]
    /\ pc' = "write_header"
    /\ UNCHANGED <<error, in_open, in_rows, values_list, seen_apps,
                   out_before, i, table, db_pos, runs, fn_arg, fn_res>>

\* open(output_file, 'w') raises: the path is not writable
OpenOutputFails ==
    /\ pc = "open_output"
    /\ pc' = "crashed"
    /\ error' = "PermissionError"
    /\ UNCHANGED <<in_open, in_rows, values_list, seen_apps, out_open, out_file,
                   out_before, i, table, db_pos, runs, fn_arg, fn_res>>

\* f.write("-- Seed data for applicants table\n"), then the range starts at 0
WriteHeader ==
    /\ pc = "write_header"
    /\ out_file' = [out_file EXCEPT !.lines = Append(@, HeaderLine)]
    /\ i' = 0
    /\ pc' = "batches"
    /\ UNCHANGED <<error, in_open, in_rows, values_list, seen_apps, out_open,
                   out_before, table, db_pos, runs, fn_arg, fn_res>>

\* one iteration of the batch loop
WriteBatch ==
    /\ pc = "batches"
    /\ RangeHasNext(i, Len(values_list))
    /\ out_file' = [out_file EXCEPT !.stmts = Append(@, Statement(Batch(values_list, i)))]
    /\ i' = i + batch_size
    /\ UNCHANGED <<pc, error, in_open, in_rows, values_list, seen_apps, out_open,
                   out_before, table, db_pos, runs, fn_arg, fn_res>>

\* the range is exhausted: the with block closes the output file
CloseOutput ==
    /\ pc = "batches"
    /\ ~RangeHasNext(i, Len(values_list))
    /\ out_open' = FALSE
    /\ pc' = "done"
    /\ UNCHANGED <<error, in_open, in_rows, values_list, seen_apps, out_file,
                   out_before, i, table, db_pos, runs, fn_arg, fn_res>>

WritePhase == OpenOutput \/ OpenOutputFails \/ WriteHeader \/ WriteBatch \/ CloseOutput

Next ==
    \/ OpenInput \/ OpenInputFails \/ ReadHeader \/ ReadHeaderFails
    \/ ReadRow \/ EndOfInput
    \/ OpenOutput \/ OpenOutputFails \/ WriteHeader \/ WriteBatch \/ CloseOutput

Spec == Init /\ [][Next]_vars

(***************************************************************************)
(* The applicants table, and what the database does with a statement the    *)
(* script wrote (lines 73-76): every tuple is inserted; on a conflict on    *)
(* application_number the columns of the SET list take the tuple's values   *)
(* and the other columns keep theirs.                                       *)
(***************************************************************************)
NullLiteral == <<"N", "U", "L", "L">>

\* one quote for every doubled quote
RECURSIVE CollapseQuotes(_)
CollapseQuotes(s) ==
    IF s = <<>> THEN <<>>
    ELSE IF Len(s) >= 2 /\ s[1] = "'" /\ s[2] = "'"
         THEN <<"'">> \o CollapseQuotes(SubSeq(s, 3, Len(s)))
         ELSE <<Head(s)>> \o CollapseQuotes(Tail(s))

\* the string a quoted literal denotes: outer quotes stripped, doubled quotes collapsed
Unquote(lit) == CollapseQuotes(SubSeq(lit, 2, Len(lit) - 1))

\* the value of a literal: NULL, or the string of a quoted literal
SqlValue(lit) == IF lit = NullLiteral THEN None ELSE Unquote(lit)

ColumnIndex(cols, c) == CHOOSE k \in 1..Len(cols) : cols[k] = c

\* the row a tuple proposes for insertion (EXCLUDED)
ProposedRow(stmt, t) ==
    [c \in {stmt.insert_cols[k] : k \in 1..Len(stmt.insert_cols)}
        |-> SqlValue(t[ColumnIndex(stmt.insert_cols, c)])]

Upsert(tbl, stmt, t) ==
    LET new == ProposedRow(stmt, t)
        set == {stmt.update_set[k] : k \in 1..Len(stmt.update_set)}
    IN  IF \E r \in tbl : r[stmt.conflict] = new[stmt.conflict]
        THEN {IF r[stmt.conflict] = new[stmt.conflict]
              THEN [c \in DOMAIN r |-> IF c \in set THEN new[c] ELSE r[c]]
              ELSE r : r \in tbl}
        ELSE tbl \cup {new}

\* the tuples of a statement, applied in order up to the k-th
RECURSIVE ExecTuples(_, _, _)
ExecTuples(tbl, stmt, k) ==
    IF k = 0 THEN tbl
    ELSE Upsert(ExecTuples(tbl, stmt, k - 1), stmt, stmt.tuples[k])

Registered == <<"R", "E", "G", "I", "S", "T", "E", "R", "E", "D">>
CheckedIn  == <<"C", "H", "E", "C", "K", "E", "D">>
OldText    == <<"o", "l", "d">>

\* a row an earlier seeding left in the table, with the status it has by now
OldRow(key, status) ==
    [application_number |-> key, name |-> OldText, phone |-> OldText,
     program |-> OldText, campus |-> OldText, date |-> OldText, time |-> None,
     location |-> OldText, instructions |-> OldText, status |-> status]

Tables ==
    { {},
      {OldRow(<<"A">>, Registered)},
      {OldRow(<<"A">>, CheckedIn)},
      {OldRow(<<"A">>, CheckedIn), OldRow(<<"B">>, Registered)} }

\* inputs of the runs against a table: up to two rows with different keys
DBRows == {MkRow(<<"A">>, GoodDate, GoodTime),
           MkRow(<<" ", "A", " ">>, BadDate, GoodTime),
           MkRow(<<"B">>, BadDate, BadTime)}

DBInputs ==
    {<<>>} \cup {<<r>> : r \in DBRows}
           \cup {<<r[1], r[2]>> : r \in {x \in DBRows \X DBRows : AppNo(x[1]) # AppNo(x[2])}}

\* the state in which the read phase leaves the run after these rows
AfterReading(rows) ==
    /\ pc = "open_output"
    /\ error = "none"
    /\ in_open = FALSE
    /\ in_rows = rows
    /\ values_list = [k \in 1..Len(rows) |-> val_str(rows[k])]
    /\ seen_apps = {AppNo(rows[k]) : k \in 1..Len(rows)}
    /\ out_open = FALSE
    /\ i = 0

InitDB ==
    /\ \E rows \in DBInputs : AfterReading(rows)
    /\ out_before = NoFile
    /\ out_file = out_before
    /\ table \in Tables
    /\ db_pos = 0
    /\ runs = 1
    /\ fn_arg = None /\ fn_res = None

\* the database executes the next statement of the file
ExecuteStatement ==
    /\ pc = "done"
    /\ db_pos < Len(out_file.stmts)
    /\ table' = ExecTuples(table, out_file.stmts[db_pos + 1],
                           Len(out_file.stmts[db_pos + 1].tuples))
    /\ db_pos' = db_pos + 1
    /\ UNCHANGED <<pc, error, in_open, in_rows, values_list, seen_apps, out_open,
                   out_file, out_before, i, runs, fn_arg, fn_res>>

\* the script is run again, on the same or another CSV, and reaches its write phase
RunAgain ==
    /\ pc = "done"
    /\ db_pos = Len(out_file.stmts)
    /\ runs < MaxRuns
    /\ runs' = runs + 1
    /\ db_pos' = 0
    /\ out_before' = out_file
    /\ \E rows \in DBInputs :
          /\ pc' = "open_output"
          /\ in_rows' = rows
          /\ values_list' = [k \in 1..Len(rows) |-> val_str(rows[k])]
          /\ seen_apps' = {AppNo(rows[k]) : k \in 1..Len(rows)}
    /\ UNCHANGED <<error, in_open, out_open, out_file, i, table, fn_arg, fn_res>>

NextDB ==
    \/ OpenOutput \/ OpenOutputFails \/ WriteHeader \/ WriteBatch \/ CloseOutput
    \/ ExecuteStatement \/ RunAgain

SpecDB == InitDB /\ [][NextDB]_vars

(***************************************************************************)
(* The batch writer alone, on output sequences long enough for several      *)
(* batches: n rows with the keys 1..n and empty other columns.              *)
(***************************************************************************)
RECURSIVE Dec(_)
Dec(n) == IF n < 10 THEN <<DigitChars[n + 1]>>
          ELSE Dec(n \div 10) \o <<DigitChars[(n % 10) + 1]>>

NumberedRow(k) == <<Dec(k), <<>>, <<>>, <<>>, <<>>, <<>>, <<>>, <<>>, <<>>>>

\* lengths within Slack of a multiple of batch_size
NearBoundary(n) == n % batch_size <= Slack \/ n % batch_size >= batch_size - Slack

InitBatch ==
    /\ \E n \in {m \in 0..MaxN : NearBoundary(m)} :
          AfterReading([k \in 1..n |-> NumberedRow(k)])
    /\ out_before \in {NoFile, StaleFile}
    /\ out_file = out_before
    /\ Idle

NextBatch ==
    OpenOutput \/ OpenOutputFails \/ WriteHeader \/ WriteBatch \/ CloseOutput

SpecBatch == InitBatch /\ [][NextBatch]_vars

(***************************************************************************)
(* The two pure functions the claims single out, applied to one argument.   *)
(***************************************************************************)
TwoDigitTokens(max) == {Dec(k) : k \in 0..max} \cup {Pad2(k) : k \in 0..max}

HourTokens == TwoDigitTokens(MaxHour) \cup {<<>>, <<" ", "2">>, <<"0", "1", "2">>}

MinuteTokens == TwoDigitTokens(MaxMinute) \cup {<<>>, <<"0", "3", "0">>}

Gaps == {<<>>, <<" ">>, <<" ", "\t">>}

Suffixes == {<<>>, <<"A", "M">>, <<"P", "M">>, <<"a", "m">>, <<"p", "M">>,
             <<"P", "M", " ">>}

\* an argument of parse_time, with the parts it is written from
TimeInputs ==
    {[h |-> h, m |-> m, gap |-> g, suffix |-> x,
      text |-> h \o <<":">> \o m \o g \o x] :
        h \in HourTokens, m \in MinuteTokens, g \in Gaps, x \in Suffixes}

EscapeChars == {"'", "a", "N"}

OBrien == <<"O", "'", "B", "r", "i", "e", "n">>

\* the arguments of escape_sql: None, and strings with and without quotes
EscapeInputs ==
    {None, NullLiteral, OBrien}
        \cup UNION {[1..n -> EscapeChars] : n \in 0..MaxStrLen}

InitCall(args) ==
    /\ pc = "call"
    /\ fn_arg \in args
    /\ fn_res = None
    /\ error = "none"
    /\ in_open = FALSE
    /\ in_rows = <<>>
    /\ values_list = <<>>
    /\ seen_apps = {}
    /\ out_open = FALSE
    /\ out_before = NoFile
    /\ out_file = out_before
    /\ i = 0
    /\ table = {} /\ db_pos = 0 /\ runs = 0

CallParseTime ==
    /\ pc = "call"
    /\ fn_res' = parse_time(fn_arg.text)
    /\ pc' = "return"
    /\ UNCHANGED <<error, in_open, in_rows, values_list, seen_apps, out_open,
                   out_file, out_before, i, table, db_pos, runs, fn_arg>>

CallEscapeSql ==
    /\ pc = "call"
    /\ fn_res' = escape_sql(fn_arg)
    /\ pc' = "return"
    /\ UNCHANGED <<error, in_open, in_rows, values_list, seen_apps, out_open,
                   out_file, out_before, i, table, db_pos, runs, fn_arg>>

SpecTime == InitCall(TimeInputs) /\ [][CallParseTime]_vars

SpecEscape == InitCall(EscapeInputs) /\ [][CallEscapeSql]_vars

(***************************************************************************)
(* Vocabulary of the claims.                                               *)
(***************************************************************************)
\* the trimmed application number of a row; a row without columns has none
Key(row) == IF row = <<>> THEN <<>> ELSE Strip(row[1])

\* row k has a non-empty key that no earlier row has
FirstSeen(rows, k) ==
    /\ Key(rows[k]) # <<>>
    /\ \A j \in 1..(k - 1) : Key(rows[j]) # Key(rows[k])

\* the tuples of the first-seen rows among rows[1..k], in row order
RECURSIVE ExpectedTuples(_, _)
ExpectedTuples(rows, k) ==
    IF k = 0 THEN <<>>
    ELSE IF FirstSeen(rows, k)
         THEN Append(ExpectedTuples(rows, k - 1), val_str(rows[k]))
         ELSE ExpectedTuples(rows, k - 1)

\* the tuples of a sequence of statements, in emission order
RECURSIVE AllTuples(_)
AllTuples(stmts) ==
    IF stmts = <<>> THEN <<>>
    ELSE AllTuples(SubSeq(stmts, 1, Len(stmts) - 1)) \o stmts[Len(stmts)].tuples

AllNineColumns == \A k \in 1..Len(in_rows) : Len(in_rows[k]) = 9

ShortRow(row) == row # <<>> /\ Len(row) < 9

IndexCrashAt(k) == pc = "crashed" /\ error = "IndexError" /\ k = Len(in_rows)

ReadPhase ==
    \/ pc \in {"open_input", "read_header", "rows", "open_output"}
    \/ pc = "crashed" /\ error \in {"FileNotFoundError", "StopIteration", "IndexError"}

(***************************************************************************)
(* C1: for 9-column rows, the output sequence is exactly the tuples of the  *)
(* rows whose trimmed application number is non-empty and differs from that *)
(* of every earlier row, one tuple per such row, built from that row, in    *)
(* row order; the statements written carry the same sequence.               *)
(***************************************************************************)
C1_OutputIsFirstSeenSubsequence ==
    (AllNineColumns /\ pc \in {"rows", "open_output", "write_header", "batches", "done"})
        => /\ values_list = ExpectedTuples(in_rows, Len(in_rows))
           /\ pc = "done" => AllTuples(out_file.stmts) = values_list

C1_Witness ==
    /\ pc = "done"
    /\ AllNineColumns
    /\ Len(in_rows) = 3
    /\ Len(values_list) = 2
    /\ \E k \in 1..3 : Key(in_rows[k]) # <<>> /\ ~FirstSeen(in_rows, k)

(***************************************************************************)
(* C2: after any number of completed row iterations, no two tuples of the   *)
(* output sequence carry the same application number, and seen_apps is the  *)
(* set of the application numbers of the tuples emitted so far.             *)
(***************************************************************************)
C2_UniqueKeysAndSeenSet ==
    ~(pc = "crashed" /\ error = "IndexError")
        => /\ \A a, b \in 1..Len(values_list) :
                 a # b => Unquote(values_list[a][1]) # Unquote(values_list[b][1])
           /\ seen_apps = {Unquote(values_list[k][1]) : k \in 1..Len(values_list)}

C2_Witness ==
    /\ pc = "rows"
    /\ Len(in_rows) = 3
    /\ Cardinality(seen_apps) = 2
    /\ \E k \in 1..3 : Key(in_rows[k]) # <<>> /\ ~FirstSeen(in_rows, k)

(***************************************************************************)
(* C5, as claimed: a completed run leaves the header line followed by one   *)
(* or more statements.                                                     *)
(***************************************************************************)
C5_AsClaimed ==
    pc = "done" => out_file.lines = <<HeaderLine>> /\ Len(out_file.stmts) >= 1

(***************************************************************************)
(* C5, amended: a completed run leaves the header line followed by zero or  *)
(* more INSERT ... ON CONFLICT statements, at least one exactly when some   *)
(* row yielded a tuple; with only skipped rows, or none, the file is the    *)
(* header line alone.  No statement is without tuples.                      *)
(***************************************************************************)
C5_HeaderThenStatementsIfAnyTuple ==
    pc = "done"
        => /\ out_file.exists
           /\ out_file.lines = <<HeaderLine>>
           /\ (Len(out_file.stmts) >= 1) <=> (\E k \in 1..Len(in_rows) : FirstSeen(in_rows, k))
           /\ \A k \in 1..Len(out_file.stmts) :
                 /\ out_file.stmts[k].tuples # <<>>
                 /\ out_file.stmts[k].insert_cols = InsertCols
                 /\ out_file.stmts[k].conflict = "application_number"

C5_Witness ==
    /\ pc = "done"
    /\ Len(in_rows) >= 2
    /\ out_file = [exists |-> TRUE, lines |-> <<HeaderLine>>, stmts |-> <<>>]

(***************************************************************************)
(* C6, as claimed: every non-empty row of fewer than 9 columns ends the run *)
(* with an out-of-range column access.                                      *)
(***************************************************************************)
C6_AsClaimed ==
    \A k \in 1..Len(in_rows) : ShortRow(in_rows[k]) => IndexCrashAt(k)

(***************************************************************************)
(* C6, amended: a non-empty row of fewer than 9 columns ends the run with   *)
(* an out-of-range column access exactly when its trimmed application       *)
(* number is non-empty and not seen before; when the number is empty or     *)
(* seen, the row is skipped silently and the run goes on.  A short row      *)
(* never yields a tuple.                                                    *)
(***************************************************************************)
C6_ShortRowFatalIffFirstSeen ==
    /\ \A k \in 1..Len(in_rows) :
          ShortRow(in_rows[k]) => (FirstSeen(in_rows, k) <=> IndexCrashAt(k))
    /\ Len(values_list) <= Cardinality({k \in 1..Len(in_rows) : Len(in_rows[k]) >= 9})

C6_Witness ==
    /\ IndexCrashAt(Len(in_rows))
    /\ \E k \in 1..(Len(in_rows) - 1) : ShortRow(in_rows[k])

(***************************************************************************)
(* C7: an iteration on a 9-column row with a non-empty, first-seen          *)
(* application number emits a tuple and goes on, whether or not date and    *)
(* time parse; an unparseable date gives the bare NULL in position 6, an    *)
(* unparseable time in position 7, and the other eight positions are those  *)
(* of the same row with a date and a time that parse.                       *)
(***************************************************************************)
C7_BadDateTimeBecomesNull ==
    [][ (pc = "rows" /\ in_rows' # in_rows)
          => LET row == in_rows'[Len(in_rows')]
                 good == [row EXCEPT ![6] = GoodDate, ![7] = GoodTime]
             IN  (Len(row) = 9 /\ FirstSeen(in_rows', Len(in_rows')))
                   => /\ pc' = "rows"
                      /\ values_list' # values_list
                      /\ values_list = SubSeq(values_list', 1, Len(values_list') - 1)
                      /\ LET t == values_list'[Len(values_list')]
                         IN  /\ parse_date(Strip(row[6])) = None <=> t[6] = NullLiteral
                             /\ parse_time(Strip(row[7])) = None <=> t[7] = NullLiteral
                             /\ \A p \in (1..10) \ {6, 7} : t[p] = val_str(good)[p]
      ]_vars

C7_Witness ==
    /\ pc = "rows"
    /\ values_list # <<>>
    /\ values_list[Len(values_list)][6] = NullLiteral
    /\ values_list[Len(values_list)][7] = NullLiteral
    /\ in_rows[Len(in_rows)][6] = BadDate

(***************************************************************************)
(* C10: the output file is neither opened nor written before the last row   *)
(* is consumed and the input file released; a failure of the read phase     *)
(* (no input file, no header row, a short row) leaves the output file as it *)
(* was before the run.                                                      *)
(***************************************************************************)
C10_NoWriteBeforeReadEnds ==
    /\ ReadPhase => (out_file = out_before /\ ~out_open)
    /\ (out_open \/ out_file # out_before)
          => (~in_open /\ pc \in {"write_header", "batches", "done"})

C10_Witness ==
    /\ pc = "crashed"
    /\ error = "IndexError"
    /\ values_list # <<>>
    /\ out_before = StaleFile
    /\ out_file = StaleFile

(***************************************************************************)
(* C3: executing a generated statement never changes the status of a row    *)
(* that exists: a row whose application number is in the batch takes name,  *)
(* phone, program, campus, date, time, location and instructions from the   *)
(* batch and keeps its status, any other row is untouched, and only rows    *)
(* that did not exist get the status REGISTERED; in every run of the script.*)
(***************************************************************************)
C3_UpsertKeepsStatus ==
    [][ table' # table
          => LET stmt == out_file.stmts[db_pos + 1]
                 InBatch(key) == {k \in 1..Len(stmt.tuples) : SqlValue(stmt.tuples[k][1]) = key}
                 Others == {"name", "phone", "program", "campus", "date", "time",
                            "location", "instructions"}
             IN  /\ \A r \in table :
                       \E r2 \in table' :
                          /\ r2.application_number = r.application_number
                          /\ r2.status = r.status
                          /\ IF InBatch(r.application_number) = {} THEN r2 = r
                             ELSE \E k \in InBatch(r.application_number) :
                                     \A c \in Others :
                                        r2[c] = SqlValue(stmt.tuples[k][ColumnIndex(InsertCols, c)])
                 /\ \A r2 \in table' :
                       (\A r \in table : r.application_number # r2.application_number)
                          => r2.status = Registered
                 /\ \A r2, r3 \in table' :
                       r2.application_number = r3.application_number => r2 = r3
      ]_vars

C3_Witness ==
    /\ runs = 2
    /\ db_pos = 1
    /\ \E r \in table :
          /\ r.application_number = <<"A">>
          /\ r.status = CheckedIn
          /\ r.name = <<"O", "'", "B">>
          /\ r.date = None

(***************************************************************************)
(* C4: for n tuples the writer emits ceil(n/1000) statements; every one but *)
(* the last holds exactly 1000 tuples, the last between 1 and 1000, and the *)
(* tuples of the statements in emission order are the output sequence.      *)
(***************************************************************************)
CeilDiv(n, d) == (n + d - 1) \div d

C4_BatchesPartitionOutput ==
    pc = "done"
        => LET s == out_file.stmts
           IN  /\ Len(s) = CeilDiv(Len(values_list), 1000)
               /\ \A k \in 1..(Len(s) - 1) : Len(s[k].tuples) = 1000
               /\ s # <<>> => Len(s[Len(s)].tuples) \in 1..1000
               /\ AllTuples(s) = values_list

C4_Witness ==
    /\ pc = "done"
    /\ Len(out_file.stmts) = 3
    /\ Len(out_file.stmts[3].tuples) < 1000

(***************************************************************************)
(* The result C8 describes for an argument written as hour, ":", minute,    *)
(* gap and AM/PM marker.                                                    *)
(***************************************************************************)
AllDigits(t) == \A k \in 1..Len(t) : IsDigit(t[k])

HourOK(h) == Len(h) \in {1, 2} /\ AllDigits(h) /\ IntOf(h) \in 1..12

MinuteOK(m) == Len(m) \in {1, 2} /\ AllDigits(m) /\ IntOf(m) \in 0..59

Clock24(a) ==
    LET hh == IF Lower(a.suffix) = <<"p", "m">>
              THEN (IntOf(a.h) % 12) + 12 ELSE IntOf(a.h) % 12
    IN  Pad2(hh) \o <<":">> \o Pad2(IntOf(a.m)) \o <<":", "0", "0">>

\* the form of the claim: h in 1..12, two-digit minute, one blank, AM or PM
ClaimedForm(a) ==
    /\ HourOK(a.h)
    /\ MinuteOK(a.m) /\ Len(a.m) = 2
    /\ a.gap = <<" ">>
    /\ a.suffix \in {<<"A", "M">>, <<"P", "M">>}

\* what strptime accepts: also a one-digit minute, any run of whitespace,
\* and the marker in either case
AcceptedForm(a) ==
    /\ HourOK(a.h)
    /\ MinuteOK(a.m)
    /\ a.gap # <<>> /\ \A k \in 1..Len(a.gap) : a.gap[k] \in WS
    /\ Lower(a.suffix) \in {<<"a", "m">>, <<"p", "m">>}

(***************************************************************************)
(* C8, as claimed: parse_time gives HH:MM:00 for 'h:mm AM|PM' with h in     *)
(* 1..12 and mm in 00..59, and null for every other argument.               *)
(***************************************************************************)
C8_AsClaimed ==
    pc = "return"
        => fn_res = (IF ClaimedForm(fn_arg) THEN Clock24(fn_arg) ELSE None)

(***************************************************************************)
(* C8, amended: parse_time gives HH:MM:00, HH = h mod 12 for AM and         *)
(* (h mod 12) + 12 for PM, for every argument made of an hour 1..12 of one  *)
(* or two digits, ":", a minute 0..59 of one or two digits, one or more     *)
(* whitespace characters and AM or PM in any letter case; it gives null for *)
(* every other argument, among them an hour of 0 or 13..23, a minute above  *)
(* 59 and a missing AM/PM marker.                                           *)
(***************************************************************************)
C8_ParseTimeAcceptsLenientForm ==
    pc = "return"
        => fn_res = (IF AcceptedForm(fn_arg) THEN Clock24(fn_arg) ELSE None)

C8_Witness ==
    /\ pc = "return"
    /\ fn_arg.text = <<"1", "2", ":", "5", " ", "\t", "a", "m">>
    /\ fn_res = <<"0", "0", ":", "0", "5", ":", "0", "0">>

(***************************************************************************)
(* C9: escape_sql gives the bare NULL exactly for an absent value; for a    *)
(* string (the empty one and the text NULL too) it gives the string between *)
(* two single quotes with every single quote doubled and every other        *)
(* character unchanged, so that stripping the outer quotes and collapsing   *)
(* the doubled quotes gives the string back.                                *)
(***************************************************************************)
QuoteCount(s) == Cardinality({k \in 1..Len(s) : s[k] = "'"})

RECURSIVE WithoutQuotes(_)
WithoutQuotes(s) ==
    IF s = <<>> THEN <<>>
    ELSE (IF Head(s) = "'" THEN <<>> ELSE <<Head(s)>>) \o WithoutQuotes(Tail(s))

\* every quote of s stands in a pair
RECURSIVE QuotesPaired(_)
QuotesPaired(s) ==
    IF s = <<>> THEN TRUE
    ELSE IF Head(s) # "'" THEN QuotesPaired(Tail(s))
    ELSE Len(s) >= 2 /\ s[2] = "'" /\ QuotesPaired(SubSeq(s, 3, Len(s)))

C9_EscapeSqlQuotesAndDoubles ==
    pc = "return"
        => /\ fn_res = NullLiteral <=> fn_arg = None
           /\ fn_arg # None
                => LET inner == SubSeq(fn_res, 2, Len(fn_res) - 1)
                   IN  /\ Len(fn_res) = Len(fn_arg) + QuoteCount(fn_arg) + 2
                       /\ fn_res[1] = "'" /\ fn_res[Len(fn_res)] = "'"
                       /\ QuotesPaired(inner)
                       /\ QuoteCount(inner) = 2 * QuoteCount(fn_arg)
                       /\ WithoutQuotes(inner) = WithoutQuotes(fn_arg)
                       /\ Unquote(fn_res) = fn_arg

C9_Witness ==
    /\ pc = "return"
    /\ fn_arg = OBrien
    /\ fn_res = <<"'", "O", "'", "'", "B", "r", "i", "e", "n", "'">>

====
